---- MODULE Spec2Model ----
(***************************************************************************)
(* A model of src/src/commands.ts of metaschema-js: the document sniffer   *)
(* (detectMetaschemaDocumentType), the tool locator                        *)
(* (findMetaschemaCliPath), the command runner                             *)
(* (executeMetaschemaCliCommand) with the result-log reader                *)
(* (validateWithSarif), and the installer (installMetaschemaCli) with the  *)
(* CLI frontend (run, and the 'use [version]' action).                     *)
(*                                                                         *)
(* Each component has its own specification over its own variables; the    *)
(* variables of the other components stay at their idle values.            *)
(***************************************************************************)
EXTENDS Integers, Sequences, FiniteSets, TLC

VARIABLES
    \* document sniffer
    file,          \* the file at filePath: [ext, readable, top, keys]
    sniffPc,       \* "call" | "done"
    sniffResult,   \* the settled outcome of detectMetaschemaDocumentType
    fileRead,      \* whether readFileSync(filePath) was called
    \* tool locator
    search,        \* the outcome of exec('which metaschema-cli'): [err, stdout]
    locPc,         \* "call" | "done"
    locResult,     \* the settled outcome of findMetaschemaCliPath
    \* command runner and result-log reader
    caller,        \* who called executeMetaschemaCliCommand: "direct" | "validate"
    showLoader,    \* the showLoader argument
    located,       \* the outcome of the search command in this call
    execPc,        \* "locating" | "running" | "failing" | "errored" | "closed" | "notSpawned"
    promise,       \* the promise executeMetaschemaCliCommand returns
    stdout,        \* the text captured from the child's stdout
    stderr,        \* the text captured from the child's stderr
    emittedOut,    \* the chunks the child wrote to its stdout, in order
    emittedErr,    \* the chunks the child wrote to its stderr, in order
    exitCode,      \* the code of the 'close' event, "none" before it
    loading,       \* whether the progress indicator's interval is set
    loadingIndex,  \* the index of the next glyph
    terminal,      \* the number of writes of the progress indicator to the terminal
    tempFile,      \* the temp log file: "absent" | "valid" | "invalid"
    fileProduced,  \* what the child wrote to the temp log file: "none" | "valid" | "invalid"
    valPc,         \* validateWithSarif: "idle" | "awaitRun" | "done"
    consoleErr,    \* validateWithSarif's consoleErr
    valResult,     \* the outcome of validateWithSarif
    \* installer and CLI frontend
    env,           \* the platform and the search path: [isWindows, binOnPath, localCopy]
    fs,            \* the install root and the alias: [installDir, entry, alias, otherExists]
    fs0,           \* fs when the program, or its latest install call, started
    command,       \* "api" (the exported function is called) or args[0]: "use" | "other"
    useVersion,    \* the [version] argument of 'use', "none" when absent
    installPc,     \* installMetaschemaCli: "idle" | "fetching" | "downloading" | "done"
    installCaller, \* "none" | "api" | "use" | "run"
    installVersion,\* the version argument of the call
    fetched,       \* the call's getVersionsFromMaven: "none" | "ok" | "failed"
    installResult, \* "pending" | "installed" | "notInstalled" | "failed"
    installError,  \* the step a failed call failed at
    installs,      \* the number of calls made through the API
    runPc,         \* the frontend's position
    installedAtCheck, \* what isMetaschemaCliInstalled resolved with: "none" | "yes" | "no"
    dispatched,    \* whether program.parse was called
    proc           \* the process: [exit, handledBy, printed, propagated]

sniffVars == <<file, sniffPc, sniffResult, fileRead>>
locVars == <<search, locPc, locResult>>
execVars == <<caller, showLoader, located, execPc, promise, stdout, stderr,
              emittedOut, emittedErr, exitCode, loading, loadingIndex, terminal,
              tempFile, fileProduced, valPc, consoleErr, valResult>>
cliVars == <<env, fs, fs0, command, useVersion, installPc, installCaller,
             installVersion, fetched, installResult, installError, installs,
             runPc, installedAtCheck, dispatched, proc>>

(***************************************************************************)
(* Generic helpers                                                         *)
(***************************************************************************)

\* All sequences over S of length at most n.
SeqsUpTo(S, n) == UNION {[1..k -> S] : k \in 0..n}

\* The elements of sequence s, as a set.
Range(s) == {s[i] : i \in 1..Len(s)}

RECURSIVE Flatten(_)
\* The concatenation of a sequence of sequences.
Flatten(ss) == IF ss = <<>> THEN <<>> ELSE Head(ss) \o Flatten(Tail(ss))

(***************************************************************************)
(* Document sniffer: detectMetaschemaDocumentType                          *)
(***************************************************************************)

\* Bound: the number of top-level keys a modelled document may have.
MaxKeys == 2

\* File extensions as path.extname returns them (case kept).
Extensions == {".xml", ".XML", ".json", ".yaml", ".yml", ".txt", ""}

\* String.prototype.toLowerCase on the extensions of the model.
ToLowerCase(ext) == IF ext = ".XML" THEN ".xml" ELSE ext

\* Top-level key names. "0" and "1" are integer-like property names.
Keys == {"metaschema-meta-constraints", "METASCHEMA", "other", "0", "1"}
IntegerKeys == <<"0", "1">>     \* in ascending numeric order

\* The shapes of a file's content: a mapping with its keys in document order,
\* a sequence (array), a scalar, null, or text that is not well-formed.
Tops == {"mapping", "emptySequence", "sequence", "string", "number", "null",
         "malformed"}

Files ==
    {[ext |-> e, readable |-> r, top |-> "mapping", keys |-> k] :
        e \in Extensions, r \in BOOLEAN, k \in SeqsUpTo(Keys, MaxKeys)}
    \cup
    {[ext |-> e, readable |-> r, top |-> t, keys |-> <<>>] :
        e \in Extensions, r \in BOOLEAN, t \in Tops \ {"mapping"}}

RECURSIVE Dedup(_, _)
\* The keys of ks not in seen, each once, in order of first appearance.
Dedup(ks, seen) ==
    IF ks = <<>> THEN <<>>
    ELSE IF Head(ks) \in seen THEN Dedup(Tail(ks), seen)
    ELSE <<Head(ks)>> \o Dedup(Tail(ks), seen \cup {Head(ks)})

\* Object.keys of the object a parser builds from a mapping whose keys appear
\* in document order ks: the integer-like keys first, in ascending numeric
\* order, then the other keys in order of first insertion.
ObjectKeys(ks) ==
    SelectSeq(IntegerKeys, LAMBDA k : k \in Range(ks))
    \o Dedup(SelectSeq(ks, LAMBDA k : k \notin Range(IntegerKeys)), {})

\* Object.keys(value)[0] for a parsed JSON or YAML value that is not null:
\* "undefined" when there is no key.
FirstObjectKey(f) ==
    CASE f.top = "mapping" ->
            IF ObjectKeys(f.keys) = <<>> THEN "undefined"
            ELSE ObjectKeys(f.keys)[1]
      [] f.top \in {"sequence", "string"} -> "0"    \* index 0
      [] OTHER -> "undefined"                       \* [], a number

getDocumentType(rootElement) ==
    CASE rootElement = "metaschema-meta-constraints" -> "MetaConstraints"
      [] rootElement = "METASCHEMA" -> "Metaschema"
      [] OTHER -> "Metaschema"

Returned(kind, format) ==
    [status |-> "returned", kind |-> kind, format |-> format, error |-> "none"]
Failed(error) ==
    [status |-> "failed", kind |-> "none", format |-> "none", error |-> error]
NoResult ==
    [status |-> "pending", kind |-> "none", format |-> "none", error |-> "none"]

parseJsonDocument(f) ==
    IF f.top = "malformed" THEN Failed("Failed to parse JSON")  \* JSON.parse throws
    ELSE IF f.top = "null" THEN Failed("Failed to parse JSON")  \* Object.keys(null) throws
    ELSE Returned(getDocumentType(FirstObjectKey(f)), "json")

\* xml2js gives an object with one key, the root element's name. A well-formed
\* XML document has exactly one root element, whose name is no number.
parseXmlDocument(f) ==
    IF f.top = "mapping" /\ Len(f.keys) = 1 /\ f.keys[1] \notin Range(IntegerKeys)
    THEN Returned(getDocumentType(f.keys[1]), "xml")
    ELSE Failed("Failed to parse XML")

\* The promise of parseYamlDocument settles with the first resolve or reject:
\* a value that is no object rejects at line 84, and what follows (the resolve
\* of line 87, or the reject of line 89 when Object.keys throws) changes nothing.
parseYamlDocument(f) ==
    IF f.top = "malformed" \/ Dedup(f.keys, {}) # f.keys
    THEN Failed("Failed to parse YAML")     \* yaml.load throws, on a duplicated key too
    ELSE IF f.top \in {"string", "number", "null"}
    THEN Failed("Invalid YAML structure")
    ELSE Returned(getDocumentType(FirstObjectKey(f)), "yaml")

SupportedExtensions == {".xml", ".json", ".yaml", ".yml"}

\* The outcome of detectMetaschemaDocumentType, and whether it read the file.
detectMetaschemaDocumentType(f) ==
    LET fileExtension == ToLowerCase(f.ext) IN
    IF fileExtension \notin SupportedExtensions
    THEN [result |-> Failed("Unsupported file format"), read |-> FALSE]
    ELSE IF ~f.readable
    THEN [result |-> Failed("I/O error"), read |-> TRUE]
    ELSE [result |-> CASE fileExtension = ".xml" -> parseXmlDocument(f)
                       [] fileExtension = ".json" -> parseJsonDocument(f)
                       [] OTHER -> parseYamlDocument(f),
          read |-> TRUE]

SniffIdle ==
    /\ file = [ext |-> "", readable |-> FALSE, top |-> "null", keys |-> <<>>]
    /\ sniffPc = "idle"
    /\ sniffResult = NoResult
    /\ fileRead = FALSE

SniffInit ==
    /\ file \in Files
    /\ sniffPc = "call"
    /\ sniffResult = NoResult
    /\ fileRead = FALSE

Detect ==
    /\ sniffPc = "call"
    /\ sniffResult' = detectMetaschemaDocumentType(file).result
    /\ fileRead' = detectMetaschemaDocumentType(file).read
    /\ sniffPc' = "done"
    /\ UNCHANGED file

(***************************************************************************)
(* Tool locator: findMetaschemaCliPath                                     *)
(***************************************************************************)

\* Bound: the length of the search command's output, in characters.
MaxOut == 3

\* Characters of the search command's output: two path characters, the line
\* feed and the space.
LF == "LF"
SP == "SP"
Chars == {"p", "q", LF, SP}
Whitespace == {LF, SP}

RECURSIVE TrimStart(_)
TrimStart(s) ==
    IF s # <<>> /\ Head(s) \in Whitespace THEN TrimStart(Tail(s)) ELSE s

RECURSIVE TrimEnd(_)
TrimEnd(s) ==
    IF s # <<>> /\ s[Len(s)] \in Whitespace
    THEN TrimEnd(SubSeq(s, 1, Len(s) - 1)) ELSE s

\* String.prototype.trim
Trim(s) == TrimEnd(TrimStart(s))

RECURSIVE SplitLines(_, _)
\* String.prototype.split('\n'): cur is the line being read. The empty
\* string splits into one empty line.
SplitLines(s, cur) ==
    IF s = <<>> THEN <<cur>>
    ELSE IF Head(s) = LF THEN <<cur>> \o SplitLines(Tail(s), <<>>)
    ELSE SplitLines(Tail(s), Append(cur, Head(s)))

Split(s) == SplitLines(s, <<>>)

Found(path) == [status |-> "resolved", path |-> path, error |-> "none"]
NotFound ==
    [status |-> "rejected", path |-> <<>>, error |-> "METASCHEMA CLI not found"]
LocPending == [status |-> "pending", path |-> <<>>, error |-> "none"]

\* The outcomes of the search command: it errors (exit status not 0, or it
\* cannot be run), or it completes with some output.
SearchOutcomes ==
    {[err |-> TRUE, stdout |-> <<>>]}
    \cup {[err |-> FALSE, stdout |-> s] : s \in SeqsUpTo(Chars, MaxOut)}

findMetaschemaCliPath(s) ==
    IF s.err THEN NotFound
    ELSE LET paths == Split(Trim(s.stdout)) IN
         IF Len(paths) > 0 THEN Found(paths[1]) ELSE NotFound

LocIdle ==
    /\ search = [err |-> TRUE, stdout |-> <<>>]
    /\ locPc = "idle"
    /\ locResult = LocPending

LocInit ==
    /\ search \in SearchOutcomes
    /\ locPc = "call"
    /\ locResult = LocPending

Locate ==
    /\ locPc = "call"
    /\ locResult' = findMetaschemaCliPath(search)
    /\ locPc' = "done"
    /\ UNCHANGED search

(***************************************************************************)
(* Command runner: executeMetaschemaCliCommand                             *)
(***************************************************************************)

\* Bound: the number of 'data' events (stdout and stderr together) of one run.
MaxChunks == 3
\* Bound: the number of glyphs the progress indicator writes in one run.
MaxTicks == 2
\* The number of glyphs of loadingGlyph.
LoadingGlyphLength == 10

\* Bytes of the child's output: "a" is an ASCII byte, "H" the first and "T" the
\* second byte of a two-byte UTF-8 character.
\* The chunks (Buffers) a 'data' event may carry.
Chunks == {<<"a">>, <<"H", "T">>, <<"H">>, <<"T">>}

RECURSIVE toString(_)
\* Buffer.prototype.toString (UTF-8): "a" decodes to "a", "H" "T" to the
\* character "e2", and a byte that is no part of a complete character to the
\* replacement character "?".
toString(data) ==
    IF data = <<>> THEN <<>>
    ELSE IF Head(data) = "a" THEN <<"a">> \o toString(Tail(data))
    ELSE IF Head(data) = "H" /\ Len(data) >= 2 /\ data[2] = "T"
         THEN <<"e2">> \o toString(Tail(Tail(data)))
    ELSE <<"?">> \o toString(Tail(data))

\* The search outcomes of the runs modelled: the search errors, finds one
\* path, finds two, or completes with no output.
SearchSamples ==
    {[err |-> TRUE, stdout |-> <<>>],
     [err |-> FALSE, stdout |-> <<"p">>],
     [err |-> FALSE, stdout |-> <<"p", LF, "q">>],
     [err |-> FALSE, stdout |-> <<>>]}

\* The exit codes of a child that ran; "null" is a child ended by a signal.
ExitCodes == {"0", "1", "2", "null"}
\* The code of 'close' after a failed spawn (the negative errno).
SpawnErrno == "-2"

NoValue == [kind |-> "none", code |-> "none", out |-> <<>>, err |-> <<>>]
Pair(out, err) == [kind |-> "pair", code |-> "none", out |-> out, err |-> err]
ProcessError(code, err) ==
    [kind |-> "METASCHEMA CLI process exited with code", code |-> code,
     out |-> <<>>, err |-> err]
SpawnError ==
    [kind |-> "Failed to start METASCHEMA CLI process", code |-> "none",
     out |-> <<>>, err |-> <<>>]
LocateError ==
    [kind |-> "METASCHEMA CLI not found", code |-> "none", out |-> <<>>, err |-> <<>>]
InvalidArgError ==
    [kind |-> "ERR_INVALID_ARG_VALUE", code |-> "none", out |-> <<>>, err |-> <<>>]

Pending == [state |-> "pending", value |-> NoValue, settles |-> 0]

\* resolve(value) or reject(value) of the promise's executor: the first one
\* settles the promise, a later one changes nothing.
Settle(p, state, value) ==
    IF p.state = "pending"
    THEN [state |-> state, value |-> value, settles |-> p.settles + 1]
    ELSE p

\* A faulty handler, which keeps only the latest chunk (= for +=).
OnDataReplace(buffer, data) == toString(data)

\* The 'data' handlers: stdout += data.toString(), stderr += data.toString()
OnData(buffer, data) == buffer \o toString(data)

ExecIdle ==
    /\ caller = "none"
    /\ showLoader = FALSE
    /\ located = [err |-> TRUE, stdout |-> <<>>]
    /\ execPc = "idle"
    /\ promise = Pending
    /\ stdout = <<>> /\ stderr = <<>>
    /\ emittedOut = <<>> /\ emittedErr = <<>>
    /\ exitCode = "none"
    /\ loading = FALSE /\ loadingIndex = 0 /\ terminal = 0
    /\ tempFile = "absent" /\ fileProduced = "none"
    /\ valPc = "idle"
    /\ consoleErr = <<>>
    /\ valResult = [status |-> "pending", kind |-> "none", text |-> <<>>]

\* A call of executeMetaschemaCliCommand, by a caller of the API with either
\* value of showLoader, or by validateWithSarif with showLoader = false.
ExecInit ==
    /\ caller \in {"direct", "validate"}
    /\ showLoader \in (IF caller = "validate" THEN {FALSE} ELSE BOOLEAN)
    /\ located \in SearchSamples
    /\ execPc = "locating"
    /\ promise = Pending
    /\ stdout = <<>> /\ stderr = <<>>
    /\ emittedOut = <<>> /\ emittedErr = <<>>
    /\ exitCode = "none"
    /\ loading = FALSE /\ loadingIndex = 0 /\ terminal = 0
    /\ tempFile = "absent" /\ fileProduced = "none"
    /\ valPc = IF caller = "validate" THEN "awaitRun" ELSE "idle"
    /\ consoleErr = <<>>
    /\ valResult = [status |-> "pending", kind |-> "none", text |-> <<>>]

\* findMetaschemaCliPath rejects: .catch(error => reject(error)).
LocateRejected ==
    /\ execPc = "locating"
    /\ findMetaschemaCliPath(located).status = "rejected"
    /\ promise' = Settle(promise, "rejected", LocateError)
    /\ execPc' = "notSpawned"
    /\ UNCHANGED <<caller, showLoader, located, stdout, stderr, emittedOut,
                   emittedErr, exitCode, loading, loadingIndex, terminal,
                   tempFile, fileProduced, valPc, consoleErr, valResult>>

\* The .then callback with an empty path, not on Windows: spawn('', ...) throws
\* (the file argument cannot be empty), which the .catch turns into a reject.
SpawnThrows ==
    /\ execPc = "locating"
    /\ findMetaschemaCliPath(located).status = "resolved"
    /\ findMetaschemaCliPath(located).path = <<>>
    /\ promise' = Settle(promise, "rejected", InvalidArgError)
    /\ execPc' = "notSpawned"
    /\ UNCHANGED <<caller, showLoader, located, stdout, stderr, emittedOut,
                   emittedErr, exitCode, loading, loadingIndex, terminal,
                   tempFile, fileProduced, valPc, consoleErr, valResult>>

\* The .then callback: spawn returns a child (on Windows cmd.exe, whatever the
\* path), which runs or fails to start, and the interval is set when showLoader.
Spawn ==
    /\ execPc = "locating"
    /\ findMetaschemaCliPath(located).status = "resolved"
    /\ \E started \in BOOLEAN :
          execPc' = IF started THEN "running" ELSE "failing"
    /\ loading' = showLoader
    /\ UNCHANGED <<caller, showLoader, located, promise, stdout, stderr,
                   emittedOut, emittedErr, exitCode, loadingIndex, terminal,
                   tempFile, fileProduced, valPc, consoleErr, valResult>>

\* The interval's callback: one glyph written to the terminal.
LoaderTick ==
    /\ loading
    /\ terminal < MaxTicks
    /\ terminal' = terminal + 1
    /\ loadingIndex' = (loadingIndex + 1) % LoadingGlyphLength
    /\ UNCHANGED <<caller, showLoader, located, execPc, promise, stdout, stderr,
                   emittedOut, emittedErr, exitCode, loading, tempFile,
                   fileProduced, valPc, consoleErr, valResult>>

StdoutData ==
    /\ execPc = "running"
    /\ Len(emittedOut) + Len(emittedErr) < MaxChunks
    /\ \E data \in Chunks :
          /\ stdout' = OnData(stdout, data)
          /\ emittedOut' = Append(emittedOut, data)
    /\ UNCHANGED <<caller, showLoader, located, execPc, promise, stderr,
                   emittedErr, exitCode, loading, loadingIndex, terminal,
                   tempFile, fileProduced, valPc, consoleErr, valResult>>

StderrData ==
    /\ execPc = "running"
    /\ Len(emittedOut) + Len(emittedErr) < MaxChunks
    /\ \E data \in Chunks :
          /\ stderr' = OnData(stderr, data)
          /\ emittedErr' = Append(emittedErr, data)
    /\ UNCHANGED <<caller, showLoader, located, execPc, promise, stdout,
                   emittedOut, exitCode, loading, loadingIndex, terminal,
                   tempFile, fileProduced, valPc, consoleErr, valResult>>

\* The running 'validate' sub-command writes the log file named by -o; a log
\* it did not finish is not parseable.
ChildWritesLog ==
    /\ execPc = "running"
    /\ caller = "validate"
    /\ tempFile = "absent"
    /\ \E content \in {"valid", "invalid"} :
          /\ tempFile' = content
          /\ fileProduced' = content
    /\ UNCHANGED <<caller, showLoader, located, execPc, promise, stdout, stderr,
                   emittedOut, emittedErr, exitCode, loading, loadingIndex,
                   terminal, valPc, consoleErr, valResult>>

\* The 'error' handler, after a spawn that failed.
ChildError ==
    /\ execPc = "failing"
    /\ loading' = FALSE
    /\ promise' = Settle(promise, "rejected", SpawnError)
    /\ execPc' = "errored"
    /\ UNCHANGED <<caller, showLoader, located, stdout, stderr, emittedOut,
                   emittedErr, exitCode, loadingIndex, terminal, tempFile,
                   fileProduced, valPc, consoleErr, valResult>>

\* The 'close' handler: of a child that ran, with its exit code, or after the
\* 'error' event of a failed spawn, with the errno.
ChildClose ==
    /\ \E code \in ExitCodes \cup {SpawnErrno} :
          /\ \/ execPc = "running" /\ code \in ExitCodes
             \/ execPc = "errored" /\ code = SpawnErrno
          /\ exitCode' = code
          /\ promise' = IF code = "0"
                        THEN Settle(promise, "resolved", Pair(stdout, stderr))
                        ELSE Settle(promise, "rejected", ProcessError(code, stderr))
    /\ loading' = FALSE
    /\ terminal' = IF loading THEN terminal + 1 ELSE terminal  \* the line is cleared
    /\ execPc' = "closed"
    /\ UNCHANGED <<caller, showLoader, located, stdout, stderr, emittedOut,
                   emittedErr, loadingIndex, tempFile, fileProduced,
                   valPc, consoleErr, valResult>>

(***************************************************************************)
(* Result-log reader: validateWithSarif                                    *)
(***************************************************************************)

\* A faulty order, JSON.parse before rmSync: content that does not parse
\* leaves the file on disk.
ParseThenRm(f) ==
    CASE f = "absent" -> [file |-> "absent", outcome |-> "readError"]
      [] f = "valid" -> [file |-> "absent", outcome |-> "log"]
      [] OTHER -> [file |-> f, outcome |-> "SyntaxError"]

\* readFileSync(tempFile); rmSync(tempFile); JSON.parse(sarifOutput): the file
\* left on disk, and the log or the exception thrown.
ReadRmParse(f) ==
    CASE f = "absent" -> [file |-> "absent", outcome |-> "readError"]
      [] f = "valid" -> [file |-> "absent", outcome |-> "log"]
      [] OTHER -> [file |-> "absent", outcome |-> "SyntaxError"]

ReturnedLog == [status |-> "returned", kind |-> "log", text |-> <<>>]
Thrown(kind, text) == [status |-> "thrown", kind |-> kind, text |-> text]

\* The try block of lines 300-306, after a run that resolved.
AfterResolved(f) ==
    IF ReadRmParse(f).outcome = "log" THEN ReturnedLog
    ELSE Thrown("Failed to read or parse SARIF output", <<>>)

\* The catch block of lines 291-299, after a run that rejected: consoleErr is
\* thrown as it is, and an exception of JSON.parse leaves the block as it is.
AfterRejected(f, err) ==
    IF f = "absent" THEN Thrown("string", err)
    ELSE IF ReadRmParse(f).outcome = "log" THEN ReturnedLog
    ELSE Thrown(ReadRmParse(f).outcome, <<>>)

\* validateWithSarif continues once executeMetaschemaCliCommand has settled.
ValidateResume ==
    /\ valPc = "awaitRun"
    /\ promise.state # "pending"
    /\ IF promise.state = "resolved"
       THEN /\ consoleErr' = promise.value.err
            /\ valResult' = AfterResolved(tempFile)
            /\ tempFile' = ReadRmParse(tempFile).file
       ELSE /\ consoleErr' = consoleErr
            /\ valResult' = AfterRejected(tempFile, consoleErr)
            /\ tempFile' = ReadRmParse(tempFile).file
    /\ valPc' = "done"
    /\ UNCHANGED <<caller, showLoader, located, execPc, promise, stdout, stderr,
                   emittedOut, emittedErr, exitCode, loading, loadingIndex,
                   terminal, fileProduced>>

(***************************************************************************)
(* Installer: installMetaschemaCli                                         *)
(***************************************************************************)

\* Bound: the number of calls of installMetaschemaCli through the API.
MaxInstalls == 2

\* The remote index: the versions it lists and the one it gives as release.
IndexVersions == {"v1", "v2"}
LatestVersion == "v2"
\* Version arguments: the default, a listed version, one the index lacks.
VersionArgs == {"latest", "v1", "v9"}

\* The states of the alias path: absent, a regular file of another origin,
\* the batch shim (Windows), a symlink to the entry point, a symlink to some
\* other path (otherExists: whether that path exists).
AliasStates(isWindows) ==
    IF isWindows THEN {"absent", "file", "shim", "linkOther"}
    ELSE {"absent", "file", "linkEntry", "linkOther"}

\* The states of the entry point metaschema-cli/bin/metaschema-cli: absent, a
\* file that is not executable, an executable file.
FileSystems(isWindows) ==
    {f \in [installDir : BOOLEAN, entry : {"absent", "file", "exec"},
            alias : AliasStates(isWindows), otherExists : BOOLEAN] :
        /\ f.entry # "absent" => f.installDir
        /\ f.otherExists => f.alias = "linkOther"}

Environments == [isWindows : BOOLEAN, binOnPath : BOOLEAN, localCopy : BOOLEAN]

\* fs.existsSync(aliasPath): a symlink is followed to its target.
ExistsSync(f) ==
    CASE f.alias \in {"file", "shim"} -> TRUE
      [] f.alias = "linkEntry" -> f.entry # "absent"
      [] f.alias = "linkOther" -> f.otherExists
      [] OTHER -> FALSE

\* `which metaschema-cli` finds an executable behind the alias.
WhichFinds(e, f) ==
    /\ e.binOnPath
    /\ CASE f.alias \in {"file", "shim"} -> TRUE
         [] f.alias = "linkEntry" -> f.entry = "exec"
         [] f.alias = "linkOther" -> f.otherExists
         [] OTHER -> FALSE

isMetaschemaCliInstalled(e, f) == WhichFinds(e, f) \/ e.localCopy

\* A faulty resolution, without the check against the index's list.
ResolveUnchecked(version) ==
    IF version = "latest" THEN LatestVersion ELSE version

\* Lines 155-161: the version to install, "unknown" for the early return.
ResolveVersion(version) ==
    IF version = "latest" THEN LatestVersion
    ELSE IF version \notin IndexVersions THEN "unknown"
    ELSE version

\* zip.extractAllTo(metaschemaCliPath, true): the entry point is written anew,
\* with the mode of a new file.
ExtractAllTo(f) == [f EXCEPT !.installDir = TRUE, !.entry = "file"]

\* fs.chmodSync(metaschemaCliExecutablePath, '755'), not on Windows.
ChmodSync(f, isWindows) == IF isWindows THEN f ELSE [f EXCEPT !.entry = "exec"]

\* Lines 195-197: the alias is unlinked when existsSync finds it.
RemoveExistingAlias(f) ==
    IF ExistsSync(f) THEN [f EXCEPT !.alias = "absent", !.otherExists = FALSE]
    ELSE f

\* Lines 199-204, the outcomes [fs, error]. symlinkSync fails when anything,
\* a dangling symlink too, is at the alias path. writeFileSync on a dangling
\* symlink writes the shim to the symlink's target, or fails when the target
\* cannot be created.
WriteAlias(f, isWindows) ==
    IF isWindows
    THEN IF f.alias = "absent"
         THEN {[fs |-> [f EXCEPT !.alias = "shim"], error |-> "none"]}
         ELSE {[fs |-> [f EXCEPT !.otherExists = TRUE], error |-> "none"],
               [fs |-> f, error |-> "alias"]}
    ELSE IF f.alias = "absent"
         THEN {[fs |-> [f EXCEPT !.alias = "linkEntry"], error |-> "none"]}
         ELSE {[fs |-> f, error |-> "alias"]}

\* Lines 181-204: extract, chmod, remove the old alias, create the new one.
InstallFiles(f, isWindows) ==
    WriteAlias(RemoveExistingAlias(ChmodSync(ExtractAllTo(f), isWindows)),
               isWindows)

CliIdleProc ==
    [exit |-> "none", handledBy |-> "none", printed |-> FALSE, propagated |-> FALSE]

\* installMetaschemaCli(version) is entered: the call awaits getVersionsFromMaven.
EnterInstall(who, version) ==
    /\ installPc' = "fetching"
    /\ installCaller' = who
    /\ installVersion' = version
    /\ fetched' = "none"
    /\ installResult' = "pending"
    /\ installError' = "none"
    /\ fs0' = fs

\* A caller of the API calls installMetaschemaCli, again after a call ended.
InstallCall ==
    /\ command = "api"
    /\ installPc \in {"idle", "done"}
    /\ installs < MaxInstalls
    /\ \E version \in VersionArgs : EnterInstall("api", version)
    /\ installs' = installs + 1
    /\ UNCHANGED <<env, fs, command, useVersion, runPc, installedAtCheck,
                   dispatched, proc>>

\* getVersionsFromMaven settled. It threw: the catch of line 209 throws the
\* install error. It returned: an unknown version returns; else npm's prefix
\* is read and the install directory made (either may throw), and the call
\* awaits the download.
InstallFetched ==
    /\ installPc = "fetching"
    /\ \E ok \in BOOLEAN, prep \in {"ok", "npm config get prefix", "mkdir"} :
          IF ~ok
          THEN /\ fetched' = "failed"
               /\ installResult' = "failed" /\ installError' = "fetch"
               /\ installPc' = "done"
               /\ fs' = fs
          ELSE /\ fetched' = "ok"
               /\ IF ResolveVersion(installVersion) = "unknown"
                  THEN /\ installResult' = "notInstalled"
                       /\ installError' = "none"
                       /\ installPc' = "done"
                       /\ fs' = fs
                  ELSE IF prep # "ok"
                  THEN /\ installResult' = "failed" /\ installError' = prep
                       /\ installPc' = "done"
                       /\ fs' = fs
                  ELSE /\ installResult' = "pending" /\ installError' = "none"
                       /\ installPc' = "downloading"
                       /\ fs' = [fs EXCEPT !.installDir = TRUE]
    /\ UNCHANGED <<env, fs0, command, useVersion, installCaller, installVersion,
                   installs, runPc, installedAtCheck, dispatched, proc>>

\* downloadFromMaven settled: it threw, or the archive is read (AdmZip throws
\* on data that is no archive), extracted, and the alias made.
InstallDownloaded ==
    /\ installPc = "downloading"
    /\ \E download \in {"ok", "download", "extract"} :
          IF download # "ok"
          THEN /\ installResult' = "failed" /\ installError' = download
               /\ fs' = fs
          ELSE \E o \in InstallFiles(fs, env.isWindows) :
                  /\ fs' = o.fs
                  /\ installError' = o.error
                  /\ installResult' = IF o.error = "none" THEN "installed"
                                      ELSE "failed"
    /\ installPc' = "done"
    /\ UNCHANGED <<env, fs0, command, useVersion, installCaller, installVersion,
                   fetched, installs, runPc, installedAtCheck, dispatched, proc>>

(***************************************************************************)
(* CLI frontend: run, and the action of 'use [version]'                    *)
(***************************************************************************)

\* What Node does with a rejected promise nothing handles: by default (since
\* Node 15) it throws, the process prints the error and exits with 1; with
\* --unhandled-rejections=warn, or an older Node, it prints a warning and the
\* process goes on to exit with 0.
UnhandledRejections == {"throw", "warn"}

\* The .catch of run(): console.error, process.exit(1).
Caught ==
    [exit |-> "1", handledBy |-> "frontend", printed |-> TRUE, propagated |-> TRUE]

\* A rejection of the 'use' action's promise: program.parse does not return
\* it and run() attaches no handler to it.
Unhandled(mode) ==
    [exit |-> IF mode = "throw" THEN "1" ELSE "0", handledBy |-> "runtime",
     printed |-> TRUE, propagated |-> TRUE]

Exited0 ==
    [exit |-> "0", handledBy |-> "none", printed |-> FALSE, propagated |-> FALSE]

\* A faulty first .then, which does not install (or does not return the
\* install's promise) before the second.
DispatchAnyway(installed) == "dispatching"

\* The first .then of run(): install when the tool is missing, and only then
\* the second .then.
ThenInstalled(installed) == IF ~installed THEN "awaitInstall" ELSE "dispatching"

\* run(): 'use' is parsed at once, and its action awaits getVersionsFromMaven;
\* any other command awaits isMetaschemaCliInstalled.
RunStart ==
    /\ runPc = "start"
    /\ IF command = "use"
       THEN /\ dispatched' = TRUE
            /\ runPc' = "useFetching"
       ELSE /\ dispatched' = FALSE
            /\ runPc' = "checking"
    /\ UNCHANGED <<env, fs, fs0, command, useVersion, installPc, installCaller,
                   installVersion, fetched, installResult, installError,
                   installs, installedAtCheck, proc>>

\* isMetaschemaCliInstalled resolved.
CheckDone ==
    /\ runPc = "checking"
    /\ LET installed == isMetaschemaCliInstalled(env, fs) IN
          /\ installedAtCheck' = IF installed THEN "yes" ELSE "no"
          /\ runPc' = ThenInstalled(installed)
          /\ IF ThenInstalled(installed) = "awaitInstall"
             THEN EnterInstall("run", "latest")
             ELSE UNCHANGED <<installPc, installCaller, installVersion, fetched,
                              installResult, installError, fs0>>
    /\ UNCHANGED <<env, fs, command, useVersion, installs, dispatched, proc>>

\* The install run() awaited settled: the second .then, or the .catch.
RunInstallDone ==
    /\ runPc = "awaitInstall"
    /\ installPc = "done"
    /\ IF installResult = "failed"
       THEN /\ proc' = Caught
            /\ runPc' = "exited"
       ELSE /\ proc' = proc
            /\ runPc' = "dispatching"
    /\ UNCHANGED <<env, fs, fs0, command, useVersion, installPc, installCaller,
                   installVersion, fetched, installResult, installError,
                   installs, installedAtCheck, dispatched>>

\* The second .then: program.parse(process.argv), which returns or throws.
Dispatch ==
    /\ runPc = "dispatching"
    /\ dispatched' = TRUE
    /\ \E throws \in BOOLEAN :
          IF throws THEN proc' = Caught ELSE proc' = Exited0
    /\ runPc' = "exited"
    /\ UNCHANGED <<env, fs, fs0, command, useVersion, installPc, installCaller,
                   installVersion, fetched, installResult, installError,
                   installs, installedAtCheck>>

\* The action's getVersionsFromMaven settled. It threw: the action's promise
\* rejects. Else a missing version is asked for, an unknown one ends the
\* action, and any other is installed.
UseFetched ==
    /\ runPc = "useFetching"
    /\ \E ok \in BOOLEAN, mode \in UnhandledRejections :
          IF ~ok
          THEN /\ proc' = Unhandled(mode)
               /\ runPc' = "exited"
               /\ UNCHANGED <<installPc, installCaller, installVersion, fetched,
                              installResult, installError, fs0>>
          ELSE IF useVersion = "none"
          THEN /\ proc' = proc
               /\ runPc' = "usePrompt"
               /\ UNCHANGED <<installPc, installCaller, installVersion, fetched,
                              installResult, installError, fs0>>
          ELSE IF useVersion \notin IndexVersions /\ useVersion # "latest"
          THEN /\ proc' = Exited0
               /\ runPc' = "exited"
               /\ UNCHANGED <<installPc, installCaller, installVersion, fetched,
                              installResult, installError, fs0>>
          ELSE /\ proc' = proc
               /\ runPc' = "useInstalling"
               /\ EnterInstall("use", useVersion)
    /\ UNCHANGED <<env, fs, command, useVersion, installs, installedAtCheck,
                   dispatched>>

\* inquirer.prompt settled: with 'latest' or a listed version, which is
\* installed, or with an error (no terminal), which rejects the action.
UsePrompt ==
    /\ runPc = "usePrompt"
    /\ \/ \E answer \in {"latest"} \cup IndexVersions :
             /\ EnterInstall("use", answer)
             /\ runPc' = "useInstalling"
             /\ proc' = proc
       \/ \E mode \in UnhandledRejections :
             /\ proc' = Unhandled(mode)
             /\ runPc' = "exited"
             /\ UNCHANGED <<installPc, installCaller, installVersion, fetched,
                            installResult, installError, fs0>>
    /\ UNCHANGED <<env, fs, command, useVersion, installs, installedAtCheck,
                   dispatched>>

\* The install the action awaited settled.
UseInstallDone ==
    /\ runPc = "useInstalling"
    /\ installPc = "done"
    /\ \E mode \in UnhandledRejections :
          proc' = IF installResult = "failed" THEN Unhandled(mode) ELSE Exited0
    /\ runPc' = "exited"
    /\ UNCHANGED <<env, fs, fs0, command, useVersion, installPc, installCaller,
                   installVersion, fetched, installResult, installError,
                   installs, installedAtCheck, dispatched>>

CliIdle ==
    /\ env = [isWindows |-> FALSE, binOnPath |-> FALSE, localCopy |-> FALSE]
    /\ fs = [installDir |-> FALSE, entry |-> "absent", alias |-> "absent",
             otherExists |-> FALSE]
    /\ fs0 = fs
    /\ command = "none"
    /\ useVersion = "none"
    /\ installPc = "idle"
    /\ installCaller = "none"
    /\ installVersion = "none"
    /\ fetched = "none"
    /\ installResult = "pending"
    /\ installError = "none"
    /\ installs = 0
    /\ runPc = "idle"
    /\ installedAtCheck = "none"
    /\ dispatched = FALSE
    /\ proc = CliIdleProc

\* The program starts: through the API, or as the CLI with its arguments,
\* over any prior state of the install root and the alias path.
CliInit ==
    /\ env \in Environments
    /\ fs \in FileSystems(env.isWindows)
    /\ fs0 = fs
    /\ command \in {"api", "use", "other"}
    /\ useVersion \in (IF command = "use" THEN {"none"} \cup VersionArgs
                       ELSE {"none"})
    /\ installPc = "idle"
    /\ installCaller = "none"
    /\ installVersion = "none"
    /\ fetched = "none"
    /\ installResult = "pending"
    /\ installError = "none"
    /\ installs = 0
    /\ runPc = IF command = "api" THEN "idle" ELSE "start"
    /\ installedAtCheck = "none"
    /\ dispatched = FALSE
    /\ proc = CliIdleProc

vars == <<sniffVars, locVars, execVars, cliVars>>

SniffNext == Detect /\ UNCHANGED <<locVars, execVars, cliVars>>
LocNext == Locate /\ UNCHANGED <<sniffVars, execVars, cliVars>>
ExecNext ==
    \/ LocateRejected /\ UNCHANGED <<sniffVars, locVars, cliVars>>
    \/ SpawnThrows /\ UNCHANGED <<sniffVars, locVars, cliVars>>
    \/ Spawn /\ UNCHANGED <<sniffVars, locVars, cliVars>>
    \/ LoaderTick /\ UNCHANGED <<sniffVars, locVars, cliVars>>
    \/ StdoutData /\ UNCHANGED <<sniffVars, locVars, cliVars>>
    \/ StderrData /\ UNCHANGED <<sniffVars, locVars, cliVars>>
    \/ ChildWritesLog /\ UNCHANGED <<sniffVars, locVars, cliVars>>
    \/ ChildError /\ UNCHANGED <<sniffVars, locVars, cliVars>>
    \/ ChildClose /\ UNCHANGED <<sniffVars, locVars, cliVars>>
    \/ ValidateResume /\ UNCHANGED <<sniffVars, locVars, cliVars>>
CliNext ==
    \/ InstallCall /\ UNCHANGED <<sniffVars, locVars, execVars>>
    \/ InstallFetched /\ UNCHANGED <<sniffVars, locVars, execVars>>
    \/ InstallDownloaded /\ UNCHANGED <<sniffVars, locVars, execVars>>
    \/ RunStart /\ UNCHANGED <<sniffVars, locVars, execVars>>
    \/ CheckDone /\ UNCHANGED <<sniffVars, locVars, execVars>>
    \/ RunInstallDone /\ UNCHANGED <<sniffVars, locVars, execVars>>
    \/ Dispatch /\ UNCHANGED <<sniffVars, locVars, execVars>>
    \/ UseFetched /\ UNCHANGED <<sniffVars, locVars, execVars>>
    \/ UsePrompt /\ UNCHANGED <<sniffVars, locVars, execVars>>
    \/ UseInstallDone /\ UNCHANGED <<sniffVars, locVars, execVars>>

SniffSpecInit == SniffInit /\ LocIdle /\ ExecIdle /\ CliIdle
LocSpecInit == LocInit /\ SniffIdle /\ ExecIdle /\ CliIdle
ExecSpecInit == ExecInit /\ SniffIdle /\ LocIdle /\ CliIdle
CliSpecInit == CliInit /\ SniffIdle /\ LocIdle /\ ExecIdle

SpecSniff == SniffSpecInit /\ [][SniffNext]_vars
SpecLocate == LocSpecInit /\ [][LocNext]_vars
SpecExec == ExecSpecInit /\ [][ExecNext]_vars
SpecCli == CliSpecInit /\ [][CliNext]_vars
(***************************************************************************)
(* Properties                                                              *)
(***************************************************************************)

\* The text of a sequence of chunks: each chunk decoded, in arrival order.
Decoded(chunks) == Flatten([i \in 1..Len(chunks) |-> toString(chunks[i])])

\* C1: once validateWithSarif has returned or thrown, on every path (the run
\* resolved or rejected, a log file was written or not, its content parses or
\* not), the temp log file is not on disk.
C1_NoTempFileAfterCall == valPc = "done" => tempFile = "absent"

\* A call that ended after a run that failed and left a log that does not parse.
C1_Witness ==
    /\ valPc = "done"
    /\ promise.state = "rejected"
    /\ fileProduced = "invalid"
    /\ valResult.status = "thrown"

\* C2: when the run of 'validate' failed and no temp log file exists, what
\* validateWithSarif throws equals the stderr text captured during the run.
C2_ThrowsCapturedStderr ==
    (valPc = "done" /\ promise.state = "rejected" /\ fileProduced = "none")
        => (valResult.status = "thrown" /\ valResult.text = stderr)

FormatOfExtension(ext) ==
    CASE ext \in {".xml", ".XML"} -> "xml"
      [] ext = ".json" -> "json"
      [] ext \in {".yaml", ".yml"} -> "yaml"
      [] OTHER -> "none"

\* Well-formed content with a root name: a mapping with a first key, which in
\* XML is the one root element; a YAML mapping has no key twice.
HasRootName(f) ==
    /\ f.readable
    /\ f.top = "mapping"
    /\ f.keys # <<>>
    /\ FormatOfExtension(f.ext) = "yaml" =>
          \A i, j \in 1..Len(f.keys) : f.keys[i] = f.keys[j] => i = j
    /\ FormatOfExtension(f.ext) = "xml" =>
          Len(f.keys) = 1 /\ f.keys[1] \notin Range(IntegerKeys)

\* C4: for a supported extension and well-formed content, the sniffer
\* returns the extension's format, and MetaConstraints exactly when the
\* first top-level key (the root element's name) is
\* 'metaschema-meta-constraints', Metaschema for any other name; for any
\* other extension it fails with Unsupported-Format without reading the file.
C4_ClassifiesByFirstKey ==
    sniffPc = "done" =>
        IF FormatOfExtension(file.ext) = "none"
        THEN sniffResult = Failed("Unsupported file format") /\ ~fileRead
        ELSE HasRootName(file) =>
                sniffResult =
                    Returned(IF file.keys[1] = "metaschema-meta-constraints"
                             THEN "MetaConstraints" ELSE "Metaschema",
                             FormatOfExtension(file.ext))

\* C5: installMetaschemaCli with an explicit version the fetched index does
\* not list returns without an exception and leaves the install directory,
\* the entry point and the alias as they were.
C5_UnknownVersionIsNoOp ==
    (installPc = "done" /\ fetched = "ok"
       /\ installVersion \notin IndexVersions \cup {"latest"})
        => (installResult = "notInstalled" /\ installError = "none" /\ fs = fs0)

\* A call with the unlisted version over an existing alias, after the index
\* was fetched.
C5_Witness ==
    /\ installPc = "done"
    /\ fetched = "ok"
    /\ installVersion = "v9"
    /\ fs.alias = "linkEntry"

\* C6: in run(), for a command other than 'use', program.parse is called only
\* after the installed-check has resolved and, when it found the tool
\* missing, only after installMetaschemaCli('latest') has installed it; when
\* that install fails, program.parse is not called and the process exits
\* with status 1.
C6_DispatchAfterInstall ==
    command = "other" =>
        /\ dispatched =>
              /\ installedAtCheck # "none"
              /\ installedAtCheck = "no" =>
                    /\ installCaller = "run"
                    /\ installVersion = "latest"
                    /\ installPc = "done"
                    /\ installResult = "installed"
        /\ (installCaller = "run" /\ installResult = "failed") =>
              /\ ~dispatched
              /\ runPc \in {"awaitInstall", "exited"}
              /\ runPc = "exited" => proc.exit = "1"

\* program.parse was called after the check found the tool missing and the
\* install ended well.
C6_Witness ==
    /\ command = "other"
    /\ dispatched
    /\ installedAtCheck = "no"
    /\ installResult = "installed"

\* C7: every error that propagates to the CLI frontend, on the default path
\* and on the 'use' path alike, is caught by the frontend, printed, and ends
\* the process with a status that is not 0.
C7_FrontendCatchesAll ==
    proc.propagated =>
        /\ proc.handledBy = "frontend"
        /\ proc.printed
        /\ proc.exit \notin {"0", "none"}

\* C8: findMetaschemaCliPath returns the first line of the search output
\* when the search finds the tool, fails with 'METASCHEMA CLI not found' when
\* the search errors and when it completes with no result, and never returns
\* an empty path.
C8_EmptySearchIsNotFound ==
    locPc = "done" =>
        /\ (search.err \/ Range(search.stdout) \subseteq Whitespace)
              => locResult = NotFound
        /\ (~search.err /\ ~(Range(search.stdout) \subseteq Whitespace))
              => locResult = Found(Split(Trim(search.stdout))[1])
        /\ locResult.status = "resolved" => locResult.path # <<>>

\* C9: whenever validateWithSarif reads a temp log file whose content does
\* not parse, it fails with 'Failed to read or parse SARIF output', after a
\* run that resolved and after a run that rejected alike.
C9_ParseFailureIsLogParseError ==
    (valPc = "done" /\ fileProduced = "invalid")
        => valResult = Thrown("Failed to read or parse SARIF output", <<>>)

\* C10: installMetaschemaCli may be re-run over any prior state of the alias
\* path: creating the alias never fails because of what is there, and after
\* an install that ended well the alias is the new one, made by this install,
\* and the installed-check reports true (the alias directory being on the
\* search path).
C10_ReinstallReplacesAlias ==
    installPc = "done" =>
        /\ installError # "alias"
        /\ installResult = "installed" =>
              /\ fs.alias \in {"shim", "linkEntry"}
              /\ env.binOnPath => isMetaschemaCliInstalled(env, fs)
====
